---------------------------- MODULE Spec2Model ----------------------------
(***************************************************************************)
(* Model of the general-question classifier (general_question_analyzer.py) *)
(* and of the chat turn handler that consults it (chatbot_app.py).         *)
(*                                                                         *)
(* Text is a sequence of one-character strings, so that trimming, case     *)
(* folding, stripping, splitting and the greeting regular expression are   *)
(* computed character by character as Python computes them.  A Python      *)
(* value handed to analyze is a record [type, val]: val is the text of a   *)
(* str and the repr of any other value.                                    *)
(***************************************************************************)
EXTENDS Integers, Sequences, FiniteSets, TLC

VARIABLES
    response_index,   \* GeneralQuestionAnalyzer._response_index
    query,            \* argument of the analyze call under examination
    result,           \* what that call returned (or that it raised)
    calls,            \* calls made by the driver (analyze, or get_analyzer)
    responses,        \* replies handed out by analyze, in order of return
    messages,         \* st.session_state.messages, per browser session
    pc,               \* position of each session's script run
    frame,            \* local variables of each session's script run
    turns,            \* chat turns started, per session
    retrieval_calls,  \* Retrieval Service calls made in the current turn
    generation_calls, \* Generation Service calls made in the current turn
    completed,        \* turns completed since the history was last reset
    likely,           \* what is_likely_knowledge_query(query) returned
    analyzer_instance,\* the module global _analyzer_instance
    instance_index,   \* _response_index of every analyzer constructed
    caller,           \* position and handle of each caller of get_analyzer
    conversations,    \* app.py: the module global conversations
    requests,         \* app.py: requests received by /api/chat
    handling,         \* app.py: sessions whose request waits for the API call
    done              \* app.py: outcome of the last request of each session

vars == <<response_index, query, result, calls, responses, messages, pc,
          frame, turns, retrieval_calls, generation_calls, completed, likely,
          analyzer_instance, instance_index, caller, conversations, requests,
          handling, done>>

(***************************************************************************)
(* Bounds                                                                  *)
(***************************************************************************)
MaxLen == 4        \* longest enumerated query over Alphabet
MaxCalls == 6      \* analyze calls made by the sequential test driver
MaxTurns == 2      \* chat turns started, over all sessions
MaxFragments == 2  \* text fragments one generation stream delivers
MaxGets == 3       \* get_analyzer calls made, over all threads
MaxRequests == 3   \* requests received by the REST chat handler

(***************************************************************************)
(* Python str primitives                                                   *)
(***************************************************************************)
Whitespace == {" ", "\t", "\n"}

UpperCase ==
    <<"A","B","C","D","E","F","G","H","I","J","K","L","M",
      "N","O","P","Q","R","S","T","U","V","W","X","Y","Z">>

LowerCase ==
    <<"a","b","c","d","e","f","g","h","i","j","k","l","m",
      "n","o","p","q","r","s","t","u","v","w","x","y","z">>

lower_char(c) ==
    IF \E i \in 1..26 : UpperCase[i] = c
    THEN LowerCase[CHOOSE i \in 1..26 : UpperCase[i] = c]
    ELSE c

upper_char(c) ==
    IF \E i \in 1..26 : LowerCase[i] = c
    THEN UpperCase[CHOOSE i \in 1..26 : LowerCase[i] = c]
    ELSE c

\* str.lower()
lower(s) == [i \in 1..Len(s) |-> lower_char(s[i])]

\* str.upper()
upper(s) == [i \in 1..Len(s) |-> upper_char(s[i])]

RECURSIVE lstrip(_, _)
\* str.lstrip(chars)
lstrip(s, chars) ==
    IF s # <<>> /\ Head(s) \in chars THEN lstrip(Tail(s), chars) ELSE s

RECURSIVE rstrip(_, _)
\* str.rstrip(chars)
rstrip(s, chars) ==
    IF s # <<>> /\ s[Len(s)] \in chars
    THEN rstrip(SubSeq(s, 1, Len(s) - 1), chars)
    ELSE s

\* str.strip()
strip(s) == rstrip(lstrip(s, Whitespace), Whitespace)

\* length of the longest prefix of s made of characters outside chars
RECURSIVE span_not(_, _)
span_not(s, chars) ==
    IF s = <<>> \/ Head(s) \in chars THEN 0 ELSE 1 + span_not(Tail(s), chars)

RECURSIVE split(_)
\* str.split(): the maximal runs of non-whitespace characters
split(s) ==
    LET t == lstrip(s, Whitespace)
        n == span_not(t, Whitespace)
    IN  IF t = <<>> THEN <<>>
        ELSE <<SubSeq(t, 1, n)>> \o split(SubSeq(t, n + 1, Len(t)))

\* x in s, for a one-character x
contains_char(s, c) == \E i \in 1..Len(s) : s[i] = c

\* x in s, for a substring x
contains(s, x) ==
    \E i \in 1..(Len(s) - Len(x) + 1) : SubSeq(s, i, i + Len(x) - 1) = x

(***************************************************************************)
(* Python values                                                           *)
(***************************************************************************)
Str(s) == [type |-> "str", val |-> s]
None == [type |-> "NoneType", val |-> <<>>]

\* bool(v) raises for a value whose __bool__ raises, as that of a numpy
\* array of several elements does
truth_raises(v) == v.type = "ndarray"

\* bool(v): None, 0, the empty str and the empty containers are falsy
truthy(v) ==
    CASE v.type = "str"      -> v.val # <<>>
      [] v.type = "NoneType" -> FALSE
      [] v.type = "int"      -> v.val # <<"0">>
      [] v.type = "list"     -> v.val # <<"[","]">>
      [] v.type = "bytes"    -> v.val # <<"b","'","'">>
      [] OTHER               -> TRUE

(***************************************************************************)
(* GeneralQuestionAnalyzer: class constants                                *)
(***************************************************************************)
SIMPLE_GREETINGS ==
    { <<"h","i">>,
      <<"h","e","l","l","o">>,
      <<"h","e","y">>,
      <<"h","o","l","a">>,
      <<"g","r","e","e","t","i","n","g","s">>,
      <<"h","o","w","d","y">>,
      <<"y","o">>,
      <<"s","u","p">>,
      <<"h","i","y","a">>,
      <<"h","e","y","a">>,
      <<"b","o","n","j","o","u","r">>,
      <<"a","l","o","h","a">> }

WELL_BEING_QUESTIONS ==
    { <<"h","o","w"," ","a","r","e"," ","y","o","u">>,
      <<"h","o","w"," ","a","r","e"," ","y","o","u"," ","d","o","i","n","g">>,
      <<"h","o","w","'","r","e"," ","y","o","u">>,
      <<"h","o","w","'","r","e"," ","y","o","u"," ","d","o","i","n","g">>,
      <<"h","o","w"," ","d","o"," ","y","o","u"," ","d","o">>,
      <<"w","h","a","t","'","s"," ","u","p">>,
      <<"w","h","a","t","s"," ","u","p">>,
      <<"w","a","s","s","u","p">>,
      <<"w","h","a","t","'","s"," ","g","o","i","n","g"," ","o","n">>,
      <<"w","h","a","t","s"," ","g","o","i","n","g"," ","o","n">>,
      <<"h","o","w"," ","h","a","v","e"," ","y","o","u"," ","b","e","e","n">>,
      <<"h","o","w","'","s"," ","i","t"," ","g","o","i","n","g">>,
      <<"h","o","w","s"," ","i","t"," ","g","o","i","n","g">>,
      <<"h","o","w"," ","y","o","u"," ","d","o","i","n","g">>,
      <<"y","o","u"," ","g","o","o","d">>,
      <<"y","o","u"," ","o","k","a","y">>,
      <<"h","o","w"," ","a","r","e"," ","t","h","i","n","g","s">>,
      <<"h","o","w"," ","i","s"," ","i","t"," ","g","o","i","n","g">> }

IDENTITY_QUESTIONS ==
    { <<"w","h","o"," ","a","r","e"," ","y","o","u">>,
      <<"w","h","a","t"," ","a","r","e"," ","y","o","u">>,
      <<"w","h","a","t"," ","i","s"," ","y","o","u","r"," ","n","a","m","e">>,
      <<"w","h","a","t","s"," ","y","o","u","r"," ","n","a","m","e">>,
      <<"w","h","a","t","'","s"," ","y","o","u","r"," ","n","a","m","e">>,
      <<"w","h","o"," ","r"," ","u">>,
      <<"w","h","a","t"," ","r"," ","u">>,
      <<"t","e","l","l"," ","m","e"," ","a","b","o","u","t"," ","y","o","u","r","s","e","l","f">>,
      <<"i","n","t","r","o","d","u","c","e"," ","y","o","u","r","s","e","l","f">> }

KnowledgeTestQueries ==
    { <<"w","h","a","t"," ","i","s"," ","t","h","e"," ","w","e","a","t","h","e","r">>,
      <<"t","e","l","l"," ","m","e"," ","a","b","o","u","t"," ","m","a","c","h","i","n","e"," ","l","e","a","r","n","i","n","g">>,
      <<"h","o","w"," ","d","o","e","s"," ","p","h","o","t","o","s","y","n","t","h","e","s","i","s"," ","w","o","r","k">>,
      <<"w","h","e","r","e"," ","i","s"," ","t","h","e"," ","d","o","c","u","m","e","n","t","a","t","i","o","n">>,
      <<"e","x","p","l","a","i","n"," ","q","u","a","n","t","u","m"," ","c","o","m","p","u","t","i","n","g">>,
      <<"w","h","a","t"," ","a","r","e"," ","t","h","e"," ","b","e","n","e","f","i","t","s"," ","o","f"," ","e","x","e","r","c","i","s","e">>,
      <<"f","i","n","d"," ","i","n","f","o","r","m","a","t","i","o","n"," ","a","b","o","u","t"," ","P","y","t","h","o","n">>,
      <<"s","e","a","r","c","h"," ","f","o","r"," ","A","P","I"," ","d","o","c","u","m","e","n","t","a","t","i","o","n">>,
      <<"w","h","a","t"," ","i","s"," ","m","a","c","h","i","n","e"," ","l","e","a","r","n","i","n","g">>,
      <<"e","x","p","l","a","i","n"," ","t","h","e"," ","b","e","n","e","f","i","t","s"," ","o","f"," ","e","x","e","r","c","i","s","e">>,
      <<"h","e","y"," ","t","h","e","r","e"," ","h","o","w"," ","a","r","e"," ","y","o","u"," ","d","o","i","n","g"," ","t","o","d","a","y">>,
      <<"h","i",","," ","c","a","n"," ","y","o","u"," ","e","x","p","l","a","i","n"," ","t","h","e"," ","e","n","t","i","r","e"," ","a","r","c","h","i","t","e","c","t","u","r","e"," ","o","f"," ","t","h","i","s"," ","s","y","s","t","e","m"," ","i","n"," ","d","e","t","a","i","l">> }

GeneralTestQueries ==
    { <<"H","i","!">>,
      <<"H","E","L","L","O">>,
      <<"h","e","y","y","y","y">>,
      <<"h","e","y"," ","t","h","e","r","e">>,
      <<"h","e","l","l","o"," ","f","r","i","e","n","d">>,
      <<"H","o","w"," ","a","r","e"," ","y","o","u","?">>,
      <<"W","h","a","t","'","s"," ","u","p","?">>,
      <<"h","i"," ","t","h","e","r","e">>,
      <<"h","i","i","i","i">>,
      <<"h","e","l","l","o","o","o","!">>,
      <<"H","e","y">> }

knowledge_indicators ==
    { <<"w","h","a","t">>,
      <<"w","h","e","n">>,
      <<"w","h","e","r","e">>,
      <<"w","h","y">>,
      <<"h","o","w">>,
      <<"w","h","o">>,
      <<"w","h","i","c","h">>,
      <<"e","x","p","l","a","i","n">>,
      <<"d","e","s","c","r","i","b","e">>,
      <<"t","e","l","l"," ","m","e">>,
      <<"f","i","n","d">>,
      <<"s","e","a","r","c","h">>,
      <<"s","h","o","w">>,
      <<"l","i","s","t">>,
      <<"g","e","t">>,
      <<"g","i","v","e">>,
      <<"p","r","o","v","i","d","e">>,
      <<"d","e","t","a","i","l","s">>,
      <<"i","n","f","o","r","m","a","t","i","o","n">>,
      <<"a","b","o","u","t">>,
      <<"r","e","g","a","r","d","i","n","g">>,
      <<"c","o","n","c","e","r","n","i","n","g">> }

\* the characters of cleaned = normalized.rstrip('!?.,;')
TrailingPunctuation == {"!", "?", ".", ",", ";"}

\* the class [\s!.?] that ends GREETING_PATTERN
PatternTail == Whitespace \cup {"!", ".", "?"}

\* c+ : one or more repetitions of the character c
Rep1(s, c) == Len(s) >= 1 /\ \A i \in 1..Len(s) : s[i] = c

\* prefix c+ : a literal prefix followed by one or more c
Elongated(s, prefix, c) ==
    /\ Len(s) > Len(prefix)
    /\ SubSeq(s, 1, Len(prefix)) = prefix
    /\ Rep1(SubSeq(s, Len(prefix) + 1, Len(s)), c)

\* the group written without the repetitions: (hi|hey|hello|hola|yo)
GreetingStem_no_repeat(s) ==
    s \in { <<"h","i">>, <<"h","e","y">>, <<"h","e","l","l","o">>,
            <<"h","o","l","a">>, <<"y","o">> }

\* the group (hi+|he+y+|hello+|hola+|yo+)
GreetingStem(s) ==
    \/ Elongated(s, <<"h">>, "i")
    \/ \E k \in 2..(Len(s) - 1) :
          /\ Elongated(SubSeq(s, 1, k), <<"h">>, "e")
          /\ Rep1(SubSeq(s, k + 1, Len(s)), "y")
    \/ Elongated(s, <<"h","e","l","l">>, "o")
    \/ Elongated(s, <<"h","o","l">>, "a")
    \/ Elongated(s, <<"y">>, "o")

\* GREETING_PATTERN.match(s): ^(group)[\s!.?]*$ under re.IGNORECASE
GREETING_PATTERN(s) ==
    LET t == lower(s)
    IN  \E n \in 0..Len(t) :
           /\ GreetingStem(SubSeq(t, 1, n))
           /\ \A i \in (n + 1)..Len(t) : t[i] \in PatternTail

Categories == {"greeting", "well_being", "identity"}

response_templates ==
    [ greeting |->
        << <<"Hello! How can I help you with your knowledge base today?">>,
           <<"Hi there! What would you like to know from your knowledge base?">>,
           <<"Hey! I'm ready to help you explore your knowledge base.">> >>,
      well_being |->
        << <<"I'm doing great! I'm here to help you with your knowledge base. What can I answer for you?">>,
           <<"I'm excellent, thank you! Ready to assist you with any questions about your knowledge base.">> >>,
      identity |->
        << <<"I'm your Knowledge Base Assistant, powered by Supermemory and Claude. I help you find and understand information from your knowledge base. What would you like to know?">>,
           <<"I'm an AI assistant designed to help you explore your knowledge base using Supermemory's search capabilities and Claude's intelligence. How can I assist you today?">> >> ]

\* the texts of one category's template list
Templates(category) ==
    { response_templates[category][i] :
        i \in 1..Len(response_templates[category]) }

\* __init__: every rotation cursor starts at 0
InitialResponseIndex == [c \in Categories |-> 0]

(***************************************************************************)
(* GeneralQuestionAnalyzer.analyze                                         *)
(***************************************************************************)
\* line 82: if not query or not isinstance(query, str)
rejects_input(q) == ~truthy(q) \/ q.type # "str"

\* the normalization without lower(): query.strip()
normalized_of_no_lower(s) == strip(s)

\* line 86: query.strip().lower()
normalized_of(s) == lower(strip(s))

\* line 89: if not normalized or len(normalized) < 2
too_short(normalized) == normalized = <<>> \/ Len(normalized) < 2

\* the stripping without the question mark: normalized.rstrip('!.,;')
cleaned_of_no_question(normalized) == rstrip(normalized, {"!", ".", ",", ";"})

\* line 93: normalized.rstrip('!?.,;')
cleaned_of(normalized) == rstrip(normalized, TrailingPunctuation)

\* line 113: the subscript [0] of an empty split() raises IndexError
first_word_raises(cleaned) ==
    contains_char(cleaned, " ") /\ split(cleaned) = <<>>

\* line 113: cleaned.split()[0] if ' ' in cleaned else cleaned
first_word(cleaned) ==
    IF contains_char(cleaned, " ") THEN split(cleaned)[1] ELSE cleaned

\* line 114: first_word in SIMPLE_GREETINGS and len(cleaned.split()) <= 3
compound_greeting(cleaned) ==
    first_word(cleaned) \in SIMPLE_GREETINGS /\ Len(split(cleaned)) <= 3

\* lines 95-119: the five checks in order, first match wins
matched_category(normalized) ==
    LET cleaned == cleaned_of(normalized)
    IN  IF cleaned \in SIMPLE_GREETINGS THEN "greeting"
        ELSE IF GREETING_PATTERN(normalized) THEN "greeting"
        ELSE IF cleaned \in WELL_BEING_QUESTIONS THEN "well_being"
        ELSE IF cleaned \in IDENTITY_QUESTIONS THEN "identity"
        ELSE IF first_word_raises(cleaned) THEN "raise"
        ELSE IF compound_greeting(cleaned) THEN "greeting"
        ELSE "none"

\* analyze with the short-query guard answering with a greeting instead of
\* returning (False, None)
analyze_category_short_greets(q) ==
    IF truth_raises(q) THEN "raise"
    ELSE IF ~truthy(q) \/ q.type # "str" THEN "none"
    ELSE IF Len(lower(strip(q.val))) < 2 THEN "greeting"
    ELSE matched_category(lower(strip(q.val)))

\* lines 153-162: is_likely_knowledge_query of a value whose truth can be
\* tested; a falsy value gives False, a str is searched for the indicators
is_likely_knowledge_query(q) ==
    IF ~truthy(q) THEN FALSE
    ELSE \E indicator \in knowledge_indicators : contains(lower(q.val), indicator)

\* lines 153-162: is_likely_knowledge_query raises on a value whose truth
\* test raises (line 153) and on a truthy value that is not a str (lower() at
\* line 161, or the str-in-bytes test at line 162)
is_likely_raises(q) ==
    truth_raises(q) \/ (truthy(q) /\ q.type # "str")

\* analyze consulting the indicator heuristic and answering (False, None)
\* for a query it flags
analyze_category_likely_overrides(q) ==
    IF truth_raises(q) THEN "raise"
    ELSE IF rejects_input(q) THEN "none"
    ELSE IF q.type # "str" THEN "raise"
    ELSE IF is_likely_knowledge_query(q) THEN "none"
    ELSE IF too_short(normalized_of(q.val)) THEN "none"
    ELSE matched_category(normalized_of(q.val))

\* lines 82-119 up to the call of _get_response: the category whose reply
\* analyze asks for, "none" for (False, None), "raise" for an exception
\* (line 82 tests the truth of the value before its type, and a str method
\* called on a value that is not a str raises)
analyze_category(q) ==
    IF truth_raises(q) THEN "raise"
    ELSE IF rejects_input(q) THEN "none"
    ELSE IF q.type # "str" THEN "raise"
    ELSE IF too_short(normalized_of(q.val)) THEN "none"
    ELSE matched_category(normalized_of(q.val))

\* _get_response without the rotation: the cursor is left where it was
get_response_no_rotation(category, index) ==
    [ response |-> response_templates[category][index[category] + 1],
      response_index |-> index ]

\* _get_response picking the template list by the cursor instead of by the
\* category
get_response_list_by_cursor(category, index) ==
    LET order == <<"greeting", "well_being", "identity">>
        templates == response_templates[order[index[category] + 1]]
    IN  [ response |-> templates[1],
          response_index |->
              [index EXCEPT ![category] =
                  (index[category] + 1) % Len(response_templates[category])] ]

\* _get_response advancing the cursor of every category
get_response_advances_all(category, index) ==
    [ response |-> response_templates[category][index[category] + 1],
      response_index |->
          [c \in Categories |-> (index[c] + 1) % Len(response_templates[c])] ]

\* _get_response: the template at the cursor, and the cursor advanced
get_response(category, index) ==
    LET templates == response_templates[category]
    IN  [ response |-> templates[index[category] + 1],
          response_index |->
              [index EXCEPT ![category] = (index[category] + 1) % Len(templates)] ]

\* analyze, run without interruption on the cursors index
analyze(q, index) ==
    LET category == analyze_category(q)
    IN  CASE category = "raise" ->
               [raised |-> TRUE, is_general |-> FALSE, response |-> None,
                response_index |-> index]
          [] category = "none" ->
               [raised |-> FALSE, is_general |-> FALSE, response |-> None,
                response_index |-> index]
          [] OTHER ->
               [raised |-> FALSE, is_general |-> TRUE,
                response |-> Str(get_response(category, index).response),
                response_index |-> get_response(category, index).response_index]

(***************************************************************************)
(* Inputs                                                                  *)
(***************************************************************************)
MaxRepeat == 3     \* most repetitions of an elongated greeting's last letter

Alphabet == {"h", "i", "y", "o", "!", ",", " "}

\* every text over Alphabet of at most MaxLen characters
ShortTexts == UNION { [1..n -> Alphabet] : n \in 0..MaxLen }

Repeat(c, n) == [i \in 1..n |-> c]

capitalize(s) == [i \in 1..Len(s) |-> IF i = 1 THEN upper_char(s[i]) ELSE s[i]]

Casings(s) == {s, upper(s), capitalize(s)}

Leads == { <<>>, <<"\t", " ">> }

Trails == { <<>>, <<" ", "\n">> }

Puncts ==
    { <<>>, <<"!">>, <<"?">>, <<",">>, <<";">>, <<".", ".", ".">> }

\* a phrase in each letter case, with punctuation after it and whitespace
\* around it
Decorated(phrases) ==
    { lead \o c \o p \o trail :
        lead \in Leads, c \in UNION { Casings(b) : b \in phrases },
        p \in Puncts, trail \in Trails }

\* the stems of the greeting pattern as (prefix, repeated last letter)
Stems ==
    { <<<<"h">>, "i">>, <<<<"h", "e">>, "y">>, <<<<"h", "e", "l", "l">>, "o">>,
      <<<<"h", "o", "l">>, "a">>, <<<<"y">>, "o">> }

PatternTails ==
    { <<>>, <<"!">>, <<"?">>, <<".">>, <<"!", "!">>, <<" ", "!">>,
      <<",">>, <<";">>, <<"!", ",">>, <<" ", "x">> }

ElongatedTexts ==
    { c \o tail :
        c \in UNION { Casings(st[1] \o Repeat(st[2], n)) :
                        st \in Stems, n \in 1..MaxRepeat }
                \cup { <<"h">> \o Repeat("e", m) \o Repeat("y", n) :
                        m \in 1..MaxRepeat, n \in 1..MaxRepeat },
        tail \in PatternTails }

Separators == { <<" ">>, <<"\t">>, <<"\n">>, <<" ", " ">>, <<",", " ">> }

FollowWords == { <<"t","h","e","r","e">>, <<"y","o","u">> }

\* a greeting token followed by one to three more words
CompoundTexts ==
    LET greetings == { <<"h","i">>, <<"h","e","l","l","o">>, <<"H","e","y">> }
        one   == { g \o s \o w : g \in greetings, s \in Separators, w \in FollowWords }
        two   == { t \o s \o w : t \in one, s \in {<<" ">>, <<"\t">>}, w \in FollowWords }
        three == { t \o <<" ">> \o w : t \in two, w \in FollowWords }
    IN  one \cup two \cup three

Texts ==
    ShortTexts \cup ElongatedTexts \cup CompoundTexts
      \cup Decorated(SIMPLE_GREETINGS \cup WELL_BEING_QUESTIONS \cup IDENTITY_QUESTIONS)
      \cup KnowledgeTestQueries \cup GeneralTestQueries

\* values that are not text: None, 0, 42, [], ['hi'], b'', b'hi', {} and
\* numpy.array([1, 2])
NonText ==
    { None,
      [type |-> "ndarray", val |-> <<"array([1, 2])">>],
      [type |-> "int", val |-> <<"0">>],
      [type |-> "int", val |-> <<"4", "2">>],
      [type |-> "list", val |-> <<"[", "]">>],
      [type |-> "list", val |-> <<"[", "'", "h", "i", "'", "]">>],
      [type |-> "bytes", val |-> <<"b", "'", "'">>],
      [type |-> "bytes", val |-> <<"b", "'", "h", "i", "'">>],
      [type |-> "dict", val |-> <<"{", "}">>] }

Inputs == { Str(t) : t \in Texts } \cup NonText

\* every value the rotation cursors can take
ResponseIndexes ==
    { f \in [Categories -> 0..2] :
        \A c \in Categories : f[c] < Len(response_templates[c]) }

(***************************************************************************)
(* State                                                                   *)
(***************************************************************************)
Sessions == {"s1", "s2"}

NoResult == [raised |-> FALSE, is_general |-> FALSE, response |-> None]

\* a thread that has not called get_analyzer: no handle (0 stands for None)
NoCaller == [pc |-> "idle", analyzer |-> 0]

\* the locals of a script run that has not started
EmptyFrame ==
    [ prompt |-> <<>>, category |-> "none", index |-> 0,
      context_chunks |-> <<>>, full_response |-> <<>>, fragments |-> 0,
      request |-> <<>>, received |-> <<>>, error |-> <<>>,
      retrieval_failed |-> FALSE, aborted |-> FALSE, cancelled |-> FALSE,
      context_limit |-> 5 ]

\* the analyzer as constructed, and no session has typed anything yet
Fresh ==
    /\ response_index = InitialResponseIndex
    /\ query = None
    /\ result = NoResult
    /\ calls = 0
    /\ responses = <<>>
    /\ messages = [s \in Sessions |-> <<>>]
    /\ pc = [s \in Sessions |-> "idle"]
    /\ frame = [s \in Sessions |-> EmptyFrame]
    /\ turns = [s \in Sessions |-> 0]
    /\ retrieval_calls = [s \in Sessions |-> 0]
    /\ generation_calls = [s \in Sessions |-> 0]
    /\ completed = [s \in Sessions |-> 0]
    /\ likely = "unset"
    /\ analyzer_instance = 0
    /\ instance_index = <<>>
    /\ caller = [s \in Sessions |-> NoCaller]
    /\ conversations = <<>>
    /\ requests = 0
    /\ handling = <<>>
    /\ done = <<>>

chat_vars ==
    <<messages, pc, frame, turns, retrieval_calls, generation_calls, completed>>

singleton_vars == <<analyzer_instance, instance_index, caller>>

rest_vars == <<conversations, requests, handling, done>>

(***************************************************************************)
(* One analyze call on any input, from any value of the cursors            *)
(***************************************************************************)
InitClassify ==
    /\ query \in Inputs
    /\ response_index \in ResponseIndexes
    /\ result = NoResult
    /\ calls = 0
    /\ responses = <<>>
    /\ messages = [s \in Sessions |-> <<>>]
    /\ pc = [s \in Sessions |-> "idle"]
    /\ frame = [s \in Sessions |-> EmptyFrame]
    /\ turns = [s \in Sessions |-> 0]
    /\ retrieval_calls = [s \in Sessions |-> 0]
    /\ generation_calls = [s \in Sessions |-> 0]
    /\ completed = [s \in Sessions |-> 0]
    /\ likely = "unset"
    /\ analyzer_instance = 0
    /\ instance_index = <<>>
    /\ caller = [s \in Sessions |-> NoCaller]
    /\ conversations = <<>>
    /\ requests = 0
    /\ handling = <<>>
    /\ done = <<>>

\* analyzer.analyze(query)
AnalyzeCall ==
    /\ calls = 0
    /\ LET r == analyze(query, response_index)
       IN  /\ result' = [raised |-> r.raised, is_general |-> r.is_general,
                         response |-> r.response]
           /\ response_index' = r.response_index
    /\ calls' = 1
    /\ UNCHANGED rest_vars
    /\ UNCHANGED <<query, responses, chat_vars, likely, singleton_vars>>

NextClassify == AnalyzeCall

SpecClassify == InitClassify /\ [][NextClassify]_vars

(***************************************************************************)
(* analyze and is_likely_knowledge_query called on the same input, in      *)
(* either order                                                            *)
(***************************************************************************)
\* two values of the cursors a caller may find
LikelyIndexes ==
    { f \in ResponseIndexes : \A c, d \in Categories : f[c] = f[d] }

InitLikely ==
    /\ query \in Inputs
    /\ response_index \in LikelyIndexes
    /\ result = NoResult
    /\ calls = 0
    /\ responses = <<>>
    /\ messages = [s \in Sessions |-> <<>>]
    /\ pc = [s \in Sessions |-> "idle"]
    /\ frame = [s \in Sessions |-> EmptyFrame]
    /\ turns = [s \in Sessions |-> 0]
    /\ retrieval_calls = [s \in Sessions |-> 0]
    /\ generation_calls = [s \in Sessions |-> 0]
    /\ completed = [s \in Sessions |-> 0]
    /\ likely = "unset"
    /\ analyzer_instance = 0
    /\ instance_index = <<>>
    /\ caller = [s \in Sessions |-> NoCaller]
    /\ conversations = <<>>
    /\ requests = 0
    /\ handling = <<>>
    /\ done = <<>>

\* analyzer.is_likely_knowledge_query(query)
LikelyCall ==
    /\ likely = "unset"
    /\ likely' = IF is_likely_raises(query) THEN "raise"
                 ELSE IF is_likely_knowledge_query(query) THEN "True"
                 ELSE "False"
    /\ UNCHANGED rest_vars
    /\ UNCHANGED <<response_index, query, result, calls, responses, chat_vars,
                   singleton_vars>>

NextLikely ==
    \/ AnalyzeCall
    \/ LikelyCall

SpecLikely == InitLikely /\ [][NextLikely]_vars

(***************************************************************************)
(* Consecutive analyze calls on one fresh analyzer (test_analyzer.py)      *)
(***************************************************************************)
Q_hi == <<"h","i">>

Q_how_are_you == <<"h","o","w"," ","a","r","e"," ","y","o","u">>

Q_who_are_you == <<"w","h","o"," ","a","r","e"," ","y","o","u">>

Q_weather ==
    <<"w","h","a","t"," ","i","s"," ","t","h","e"," ","w","e","a","t","h","e","r">>

TestQueries == {Q_hi, Q_how_are_you, Q_who_are_you, Q_weather}

\* is_general, response = analyzer.analyze(q); responses.append(response)
TestAnalyze(q) ==
    /\ calls < MaxCalls
    /\ LET r == analyze(Str(q), response_index)
       IN  /\ result' = [raised |-> r.raised, is_general |-> r.is_general,
                         response |-> r.response]
           /\ response_index' = r.response_index
           /\ responses' = Append(responses,
                  [session |-> "test", query |-> q, response |-> r.response])
    /\ query' = Str(q)
    /\ calls' = calls + 1
    /\ UNCHANGED rest_vars
    /\ UNCHANGED <<chat_vars, likely, singleton_vars>>

NextSeq == \E q \in TestQueries : TestAnalyze(q)

SpecSeq == Fresh /\ [][NextSeq]_vars

(***************************************************************************)
(* The chat turn of chatbot_app.py, one script run per browser session,    *)
(* all sessions holding the one analyzer whose cursors are response_index  *)
(* (the first calls of get_analyzer are modelled apart, further down)      *)
(***************************************************************************)
SYSTEM_PROMPT ==
    <<"You are an intelligent assistant with access to a knowledge base through Supermemory. ...">>

ChatPrompts == {Q_hi, Q_how_are_you, Q_weather}

\* what the Retrieval Service answers: an error, or documents of chunks
SearchOutcomes ==
    { [ok |-> FALSE, results |-> <<>>],
      [ok |-> TRUE,  results |-> <<>>],
      [ok |-> TRUE,  results |-> << << <<" ","s","u","n"," ">>, <<" ">> >>,
                                    << <<"r","a","i","n">> >> >>],
      [ok |-> TRUE,  results |-> << << <<" ","s","u","n"," ">>,
                                       <<"r","a","i","n">> >> >>] }

\* lines 469-475: values the slider "Number of context chunks" (1 to 10,
\* 5 when untouched) may stand at
ContextLimits == {1, 5}

\* lines 58-61: the service is asked for at most limit results
honours_limit(outcome, limit) ==
    outcome.ok => Len(outcome.results) <= limit

\* the reply the Generation Service streams, fragment by fragment, and the
\* error it may raise at any point of the stream
StreamedReply == << <<"It ">>, <<"is ">>, <<"sunny ">>, <<"today.">> >>

TextFragments == { StreamedReply[i] : i \in 1..Len(StreamedReply) }

GenerationErrors == { <<"overloaded_error">> }

RECURSIVE chunks_of(_)
\* lines 65-67: the chunks of one document whose content is not blank, trimmed
chunks_of(chunks) ==
    IF chunks = <<>> THEN <<>>
    ELSE IF Head(chunks) # <<>> /\ strip(Head(chunks)) # <<>>
         THEN <<strip(Head(chunks))>> \o chunks_of(Tail(chunks))
         ELSE chunks_of(Tail(chunks))

RECURSIVE context_chunks_of(_)
\* lines 63-67: the chunks of every document, in order
context_chunks_of(results) ==
    IF results = <<>> THEN <<>>
    ELSE chunks_of(Head(results)) \o context_chunks_of(Tail(results))

\* search_supermemory without its except clause: a failure of the service
\* leaves the function as an exception
search_supermemory_uncaught(outcome) ==
    IF outcome.ok
    THEN [ context_chunks |-> context_chunks_of(outcome.results),
           found |-> context_chunks_of(outcome.results) # <<>>,
           raised |-> FALSE ]
    ELSE [ context_chunks |-> <<>>, found |-> FALSE, raised |-> TRUE ]

\* search_supermemory: the chunks found and whether there are any; a failure
\* of the service is caught (line 70) and answered with ([], False)
search_supermemory(outcome) ==
    IF outcome.ok
    THEN [ context_chunks |-> context_chunks_of(outcome.results),
           found |-> context_chunks_of(outcome.results) # <<>>,
           raised |-> FALSE ]
    ELSE [ context_chunks |-> <<>>, found |-> FALSE, raised |-> FALSE ]

Digits == <<"1","2","3","4","5","6","7","8","9">>

RECURSIVE context_text_all_first(_, _)
\* the join with every chunk labelled "Context 1"
context_text_all_first(context_chunks, i) ==
    IF i > Len(context_chunks) THEN <<>>
    ELSE (IF i > 1 THEN <<"\n\n---\n\n">> ELSE <<>>)
           \o <<"Context ", Digits[1], ":\n">> \o context_chunks[i]
           \o context_text_all_first(context_chunks, i + 1)

RECURSIVE context_text(_, _)
\* line 79: "\n\n---\n\n".join(f"Context {i+1}:\n{chunk}" ...), from the i-th on
context_text(context_chunks, i) ==
    IF i > Len(context_chunks) THEN <<>>
    ELSE (IF i > 1 THEN <<"\n\n---\n\n">> ELSE <<>>)
           \o <<"Context ", Digits[i], ":\n">> \o context_chunks[i]
           \o context_text(context_chunks, i + 1)

\* lines 78-93: the user message built for the Generation Service
user_message(prompt, context_chunks) ==
    IF context_chunks # <<>>
    THEN <<"Based on the following context from the knowledge base, please answer the user's question.\n\nRetrieved Context:\n">>
           \o context_text(context_chunks, 1)
           \o <<"\n\nUser Question: ">> \o prompt
           \o <<"\n\nPlease provide a helpful answer based on the context above. If the context doesn't fully answer the question, please say so.">>
    ELSE <<"No relevant context was found in the knowledge base for this question.\n\nUser Question: ">>
           \o prompt
           \o <<"\n\nPlease acknowledge that you don't have specific information about this in the knowledge base, but you can provide general assistance if appropriate.">>

\* lines 96-103: the request sent to the Generation Service
stream_request(prompt, context_chunks) ==
    [ system |-> SYSTEM_PROMPT,
      messages |-> << [role |-> "user",
                       content |-> user_message(prompt, context_chunks)] >> ]

\* the branch taken as if is_general were always False
takes_quick_path_never(is_general) == FALSE

\* line 565: if is_general
takes_quick_path(is_general) == is_general

RECURSIVE Sum(_, _)
Sum(f, S) ==
    IF S = {} THEN 0
    ELSE LET x == CHOOSE y \in S : TRUE IN f[x] + Sum(f, S \ {x})

\* lines 553-563 and 131-133: the prompt is appended to the history and analyze
\* runs up to reading the rotation cursor in _get_response, or, for a query
\* that matches no category, up to its return of (False, None)
ChatInput(s, p) ==
    /\ pc[s] = "idle"
    /\ Sum(turns, Sessions) < MaxTurns
    /\ turns' = [turns EXCEPT ![s] = @ + 1]
    /\ messages' = [messages EXCEPT
                      ![s] = Append(@, [role |-> "user", content |-> p])]
    /\ retrieval_calls' = [retrieval_calls EXCEPT ![s] = 0]
    /\ generation_calls' = [generation_calls EXCEPT ![s] = 0]
    /\ LET category == analyze_category(Str(p))
       IN  IF category \in Categories
           THEN /\ frame' = [frame EXCEPT
                               ![s] = [EmptyFrame EXCEPT
                                         !.prompt = p,
                                         !.category = category,
                                         !.index = response_index[category]]]
                /\ pc' = [pc EXCEPT ![s] = "rotate"]
           ELSE /\ frame' = [frame EXCEPT ![s] = [EmptyFrame EXCEPT !.prompt = p]]
                /\ pc' = [pc EXCEPT ![s] = "search"]
    /\ UNCHANGED rest_vars
    /\ UNCHANGED <<response_index, query, result, calls, responses, completed,
                   likely, singleton_vars>>

\* lines 136-138 and 565-577: _get_response stores the advanced cursor and
\* returns the template it read; the reply is appended with an empty context
Rotate(s) ==
    /\ pc[s] = "rotate"
    /\ LET category == frame[s].category
           templates == response_templates[category]
           quick_response == templates[frame[s].index + 1]
       IN  /\ response_index' =
                 [response_index EXCEPT
                    ![category] = (frame[s].index + 1) % Len(templates)]
           /\ responses' = Append(responses,
                 [session |-> s, query |-> frame[s].prompt,
                  response |-> Str(quick_response)])
           /\ IF takes_quick_path(TRUE)
              THEN /\ messages' = [messages EXCEPT
                                     ![s] = Append(@, [role |-> "assistant",
                                                       content |-> quick_response,
                                                       context |-> <<>>])]
                   /\ pc' = [pc EXCEPT ![s] = "idle"]
                   /\ completed' = [completed EXCEPT ![s] = @ + 1]
              ELSE /\ messages' = messages
                   /\ pc' = [pc EXCEPT ![s] = "search"]
                   /\ completed' = completed
    /\ UNCHANGED rest_vars
    /\ UNCHANGED <<query, result, calls, frame, turns, retrieval_calls,
                   generation_calls, likely, singleton_vars>>

\* lines 581-582 and 78-103: the Retrieval Service is called with the value
\* of the slider as limit and answers with at most that many results, the user
\* message is built and the stream of the Generation Service is opened; an
\* exception leaving search_supermemory would end the script run at line 582
Search(s, limit, outcome) ==
    /\ pc[s] = "search"
    /\ honours_limit(outcome, limit)
    /\ retrieval_calls' = [retrieval_calls EXCEPT ![s] = @ + 1]
    /\ LET searched == search_supermemory(outcome)
       IN  IF searched.raised
           THEN /\ frame' = [frame EXCEPT ![s].retrieval_failed = TRUE,
                                          ![s].aborted = TRUE,
                                          ![s].context_limit = limit]
                /\ pc' = [pc EXCEPT ![s] = "idle"]
                /\ generation_calls' = generation_calls
           ELSE /\ frame' = [frame EXCEPT
                   ![s].retrieval_failed = ~outcome.ok,
                   ![s].context_limit = limit,
                   ![s].context_chunks = searched.context_chunks,
                   ![s].request =
                       stream_request(frame[s].prompt, searched.context_chunks)]
                /\ pc' = [pc EXCEPT ![s] = "stream"]
                /\ generation_calls' = [generation_calls EXCEPT ![s] = @ + 1]
    /\ UNCHANGED rest_vars
    /\ UNCHANGED <<response_index, query, result, calls, responses, messages,
                   turns, completed, likely, singleton_vars>>

\* the accumulation replacing the text received so far by the last chunk
accumulate_overwrites(full_response, chunk) == chunk

\* line 591: full_response += chunk
accumulate(full_response, chunk) == full_response \o chunk

\* lines 104-105 and 590-592: one fragment arrives and is concatenated
StreamText(s, text) ==
    /\ pc[s] = "stream"
    /\ frame[s].fragments < MaxFragments
    /\ text = StreamedReply[(frame[s].fragments % Len(StreamedReply)) + 1]
    /\ frame' = [frame EXCEPT
                   ![s].full_response = accumulate(@, text),
                   ![s].received = Append(@, text),
                   ![s].fragments = @ + 1]
    /\ UNCHANGED rest_vars
    /\ UNCHANGED <<response_index, query, result, calls, responses, messages,
                   pc, turns, retrieval_calls, generation_calls, completed,
                   likely, singleton_vars>>

\* the append that leaves out a reply with no text
append_assistant_skips_empty(history, full_response, context_chunks) ==
    IF full_response = <<>> THEN history
    ELSE Append(history, [role |-> "assistant", content |-> full_response,
                          context |-> context_chunks])

\* lines 606-611: the reply is appended to the history with its context
append_assistant(history, full_response, context_chunks) ==
    Append(history, [role |-> "assistant", content |-> full_response,
                     context |-> context_chunks])

\* line 107: the text yielded in place of the exception e
error_chunk(e) == <<"Error generating response: ">> \o e

\* lines 106-107 and 590-611: the service fails; the error text is yielded as
\* the last fragment and the reply is recorded
StreamError(s, e) ==
    /\ pc[s] = "stream"
    /\ messages' = [messages EXCEPT
                      ![s] = append_assistant(@,
                               accumulate(frame[s].full_response, error_chunk(e)),
                               frame[s].context_chunks)]
    /\ frame' = [frame EXCEPT
                   ![s].full_response = accumulate(@, error_chunk(e)),
                   ![s].error = e]
    /\ pc' = [pc EXCEPT ![s] = "idle"]
    /\ completed' = [completed EXCEPT ![s] = @ + 1]
    /\ UNCHANGED rest_vars
    /\ UNCHANGED <<response_index, query, result, calls, responses, turns,
                   retrieval_calls, generation_calls, likely, singleton_vars>>

\* lines 590-611: the stream ends; the reply is recorded
StreamEnd(s) ==
    /\ pc[s] = "stream"
    /\ messages' = [messages EXCEPT
                      ![s] = append_assistant(@, frame[s].full_response,
                                              frame[s].context_chunks)]
    /\ pc' = [pc EXCEPT ![s] = "idle"]
    /\ completed' = [completed EXCEPT ![s] = @ + 1]
    /\ UNCHANGED rest_vars
    /\ UNCHANGED <<response_index, query, result, calls, responses, frame,
                   turns, retrieval_calls, generation_calls, likely,
                   singleton_vars>>

\* lines 500-502: Clear Chat History is clicked between two turns; the history
\* is replaced by an empty list and the script reruns from the top
ClearHistory(s) ==
    /\ pc[s] = "idle"
    /\ messages[s] # <<>>
    /\ messages' = [messages EXCEPT ![s] = <<>>]
    /\ completed' = [completed EXCEPT ![s] = 0]
    /\ frame' = [frame EXCEPT ![s] = EmptyFrame]
    /\ retrieval_calls' = [retrieval_calls EXCEPT ![s] = 0]
    /\ generation_calls' = [generation_calls EXCEPT ![s] = 0]
    /\ UNCHANGED rest_vars
    /\ UNCHANGED <<response_index, query, result, calls, responses, pc, turns,
                   likely, singleton_vars>>

Init == Fresh

Next ==
    \E s \in Sessions :
        \/ \E p \in ChatPrompts : ChatInput(s, p)
        \/ Rotate(s)
        \/ \E limit \in ContextLimits, outcome \in SearchOutcomes :
              Search(s, limit, outcome)
        \/ \E text \in TextFragments : StreamText(s, text)
        \/ \E e \in GenerationErrors : StreamError(s, e)
        \/ StreamEnd(s)
        \/ ClearHistory(s)

Spec == Init /\ [][Next]_vars

(***************************************************************************)
(* The chat turn with script runs that are stopped while the reply streams *)
(***************************************************************************)
\* lines 590-592: the session asks for a rerun (a widget is touched, a new
\* prompt is sent, the tab is closed) while the reply streams; the script
\* run is stopped at the placeholder update inside the loop and never
\* reaches the append of lines 606-611
Cancel(s) ==
    /\ pc[s] = "stream"
    /\ frame' = [frame EXCEPT ![s].cancelled = TRUE]
    /\ pc' = [pc EXCEPT ![s] = "idle"]
    /\ UNCHANGED rest_vars
    /\ UNCHANGED <<response_index, query, result, calls, responses, messages,
                   turns, retrieval_calls, generation_calls, completed, likely,
                   singleton_vars>>

NextCancel ==
    \/ Next
    \/ \E s \in Sessions : Cancel(s)

SpecCancel == Init /\ [][NextCancel]_vars

(***************************************************************************)
(* get_analyzer called by the script threads of the sessions, each call    *)
(* followed by analyze on the instance it returned (chatbot_app.py lines   *)
(* 561-563)                                                                *)
(***************************************************************************)
\* line 174: if _analyzer_instance is None
GetAnalyzerCheck(s) ==
    /\ caller[s].pc = "idle"
    /\ calls < MaxGets
    /\ calls' = calls + 1
    /\ caller' = [caller EXCEPT
                    ![s].pc = IF analyzer_instance = 0 THEN "create" ELSE "return"]
    /\ UNCHANGED rest_vars
    /\ UNCHANGED <<response_index, query, result, responses, chat_vars, likely,
                   analyzer_instance, instance_index>>

\* line 175: _analyzer_instance = GeneralQuestionAnalyzer()
GetAnalyzerCreate(s) ==
    /\ caller[s].pc = "create"
    /\ instance_index' = Append(instance_index, InitialResponseIndex)
    /\ analyzer_instance' = Len(instance_index) + 1
    /\ caller' = [caller EXCEPT ![s].pc = "return"]
    /\ UNCHANGED rest_vars
    /\ UNCHANGED <<response_index, query, result, calls, responses, chat_vars,
                   likely>>

\* line 176: return _analyzer_instance
GetAnalyzerReturn(s) ==
    /\ caller[s].pc = "return"
    /\ caller' = [caller EXCEPT ![s] = [pc |-> "have",
                                        analyzer |-> analyzer_instance]]
    /\ UNCHANGED rest_vars
    /\ UNCHANGED <<response_index, query, result, calls, responses, chat_vars,
                   likely, analyzer_instance, instance_index>>

\* line 563: is_general, quick_response = analyzer.analyze(prompt), on the
\* instance the thread holds
AnalyzeOn(s, p) ==
    /\ caller[s].pc = "have"
    /\ LET r == analyze(Str(p), instance_index[caller[s].analyzer])
       IN  /\ instance_index' =
                 [instance_index EXCEPT ![caller[s].analyzer] = r.response_index]
           /\ responses' = Append(responses,
                 [session |-> s, query |-> p, response |-> r.response])
    /\ caller' = [caller EXCEPT ![s].pc = "idle"]
    /\ UNCHANGED rest_vars
    /\ UNCHANGED <<response_index, query, result, calls, chat_vars, likely,
                   analyzer_instance>>

NextSingleton ==
    \E s \in Sessions :
        \/ GetAnalyzerCheck(s)
        \/ GetAnalyzerCreate(s)
        \/ GetAnalyzerReturn(s)
        \/ \E p \in ChatPrompts : AnalyzeOn(s, p)

SpecSingleton == Fresh /\ [][NextSingleton]_vars

(***************************************************************************)
(* The REST chat handler of app.py: chat() and clear_session().  The page  *)
(* sends the requests of one session one after another; requests of        *)
(* different sessions are handled concurrently.                            *)
(***************************************************************************)
\* the messages a page sends
RestMessages == {Q_hi, Q_weather}

\* what the API answers
RestReplies == { <<"Hello.">> }

\* line 37: the ids uuid4 hands to requests that carry no session_id
GeneratedIds == <<"u1", "u2", "u3", "u4", "u5", "u6">>

\* a request carries the id of a session, or none
NoSessionId == "none"

\* lines 34-37: the session the request is handled for
session_id_of(given) ==
    IF given = NoSessionId
    THEN GeneratedIds[(requests % Len(GeneratedIds)) + 1]
    ELSE given

\* lines 40-41: the history of the session, an empty list for a new one
history_of(k) ==
    IF k \in DOMAIN conversations THEN conversations[k] ELSE <<>>

\* the function f without the key k
Without(f, k) == [x \in (DOMAIN f) \ {k} |-> f[x]]

\* the function f with the key k bound to v
With(f, k, v) == [x \in (DOMAIN f) \cup {k} |-> IF x = k THEN v ELSE f[x]]

\* lines 70-71: the except clause answers 500 and leaves the history as the
\* try block left it
history_after_failure(k) == conversations[k]

\* lines 32-33 and 70-71: the body is not a JSON object; data.get raises and
\* the request is answered 500 before anything is stored
RestBadRequest ==
    /\ requests < MaxRequests
    /\ requests' = requests + 1
    /\ UNCHANGED <<conversations, handling, done>>
    /\ UNCHANGED <<response_index, query, result, calls, responses, chat_vars,
                   likely, singleton_vars>>

\* lines 32-50: the request is read, the session's history is created if
\* need be, the user message is appended and the API is called
RestChat(given, m) ==
    /\ requests < MaxRequests
    /\ session_id_of(given) \notin DOMAIN handling
    /\ requests' = requests + 1
    /\ LET k == session_id_of(given)
       IN  /\ conversations' =
                 With(conversations, k,
                      Append(history_of(k), [role |-> "user", content |-> m]))
           /\ handling' = With(handling, k, [before |-> history_of(k)])
           /\ done' = Without(done, k)
    /\ UNCHANGED <<response_index, query, result, calls, responses, chat_vars,
                   likely, singleton_vars>>

\* lines 50-68: the API answers; the assistant message is appended and the
\* request is answered 200
RestReply(k, text) ==
    /\ k \in DOMAIN handling
    /\ conversations' =
          With(conversations, k,
               Append(conversations[k], [role |-> "assistant", content |-> text]))
    /\ done' = With(done, k, [status |-> 200, before |-> handling[k].before])
    /\ handling' = Without(handling, k)
    /\ UNCHANGED requests
    /\ UNCHANGED <<response_index, query, result, calls, responses, chat_vars,
                   likely, singleton_vars>>

\* lines 50-57 and 70-71: the API call raises (or its answer has no content
\* block); the request is answered 500
RestFail(k) ==
    /\ k \in DOMAIN handling
    /\ conversations' = With(conversations, k, history_after_failure(k))
    /\ done' = With(done, k, [status |-> 500, before |-> handling[k].before])
    /\ handling' = Without(handling, k)
    /\ UNCHANGED requests
    /\ UNCHANGED <<response_index, query, result, calls, responses, chat_vars,
                   likely, singleton_vars>>

\* clear_session, lines 160-164: the history of a known session is deleted
RestClearSession(k) ==
    /\ k \in DOMAIN conversations
    /\ k \notin DOMAIN handling
    /\ conversations' = Without(conversations, k)
    /\ done' = Without(done, k)
    /\ UNCHANGED <<requests, handling>>
    /\ UNCHANGED <<response_index, query, result, calls, responses, chat_vars,
                   likely, singleton_vars>>

NextRest ==
    \/ RestBadRequest
    \/ \E given \in Sessions \cup {NoSessionId}, m \in RestMessages :
          RestChat(given, m)
    \/ \E k \in DOMAIN handling, text \in RestReplies : RestReply(k, text)
    \/ \E k \in DOMAIN handling : RestFail(k)
    \/ \E k \in DOMAIN conversations : RestClearSession(k)

SpecRest == Fresh /\ [][NextRest]_vars

(***************************************************************************)
(* Properties of one analyze call                                          *)
(***************************************************************************)
\* the query is text
IsText == query.type = "str"

\* trimmed and lowercased
NormalizedForm(t) == lower(strip(t))

\* trimmed, lowercased, trailing !?.,; stripped
CleanedForm(t) == rstrip(NormalizedForm(t), {"!", "?", ".", ",", ";"})

\* the call returned (True, reply) with reply one of the category's templates
ReturnedGeneral(category) ==
    /\ ~result.raised
    /\ result.is_general
    /\ result.response.type = "str"
    /\ result.response.val \in Templates(category)

\* the call returned (False, None)
ReturnedKnowledgeSeeking ==
    /\ ~result.raised
    /\ ~result.is_general
    /\ result.response = None

\* C4: a query whose cleaned form is a greeting token, in any letter case,
\* is General with a reply from the greeting templates
C4_ExactGreeting ==
    (calls = 1 /\ IsText /\ CleanedForm(query.val) \in SIMPLE_GREETINGS)
        => ReturnedGeneral("greeting")

C4_Witness ==
    /\ calls = 1
    /\ query = Str(<<"\t", " ", "H", "O", "W", "D", "Y", "?">>)
    /\ ReturnedGeneral("greeting")

\* a stem of hi, hey, hello, hola, yo with its last letter repeated
IsElongatedStem(t) ==
    \E st \in { <<"h","i">>, <<"h","e","y">>, <<"h","e","l","l","o">>,
                <<"h","o","l","a">>, <<"y","o">> } :
        /\ Len(t) >= Len(st)
        /\ SubSeq(t, 1, Len(st)) = st
        /\ \A i \in (Len(st) + 1)..Len(t) : t[i] = st[Len(st)]

\* C5: a greeting stem with its last letter repeated any number of times,
\* with or without closing marks such as "!", is General with a greeting reply
C5_ElongatedGreeting ==
    (calls = 1 /\ IsText /\ IsElongatedStem(rstrip(query.val, {"!", "?", "."})))
        => ReturnedGeneral("greeting")

C5_Witness ==
    /\ calls = 1
    /\ query = Str(<<"h","e","l","l","o","o","o","!">>)
    /\ ReturnedGeneral("greeting")

\* C6: a query whose cleaned form is a well-being phrase gets a well-being
\* reply, and one whose cleaned form is an identity phrase an identity reply
C6_WellBeingAndIdentity ==
    /\ (calls = 1 /\ IsText /\ CleanedForm(query.val) \in WELL_BEING_QUESTIONS)
          => ReturnedGeneral("well_being")
    /\ (calls = 1 /\ IsText /\ CleanedForm(query.val) \in IDENTITY_QUESTIONS)
          => ReturnedGeneral("identity")

C6_Witness ==
    /\ calls = 1
    /\ query = Str(<<"W","h","a","t","'","s"," ","u","p","?">>)
    /\ ReturnedGeneral("well_being")

\* the query is matched by none of the checks 1 to 4
UnmatchedBySteps1To4(t) ==
    /\ CleanedForm(t) \notin SIMPLE_GREETINGS
    /\ ~GREETING_PATTERN(NormalizedForm(t))
    /\ CleanedForm(t) \notin WELL_BEING_QUESTIONS
    /\ CleanedForm(t) \notin IDENTITY_QUESTIONS

\* the whitespace-delimited tokens of the cleaned form
Tokens(t) == split(CleanedForm(t))

\* the first whitespace-delimited token of the cleaned form is a greeting
StartsWithGreeting(t) ==
    Tokens(t) # <<>> /\ Tokens(t)[1] \in SIMPLE_GREETINGS

\* C7: a query unmatched by checks 1 to 4 whose first whitespace-delimited
\* token is a greeting token is General/Greeting when it has at most 3
\* tokens and KnowledgeSeeking when it has more
C7_CompoundGreeting ==
    (calls = 1 /\ IsText /\ Len(NormalizedForm(query.val)) >= 2
       /\ UnmatchedBySteps1To4(query.val) /\ StartsWithGreeting(query.val))
        => IF Len(Tokens(query.val)) <= 3
           THEN ReturnedGeneral("greeting")
           ELSE ReturnedKnowledgeSeeking

\* C8: a query whose normalized form has fewer than 2 characters is
\* KnowledgeSeeking: analyze returns (False, None)
C8_ShortQuery ==
    (calls = 1 /\ IsText /\ Len(NormalizedForm(query.val)) < 2)
        => ReturnedKnowledgeSeeking

C8_Witness ==
    /\ calls = 1
    /\ query = Str(<<" ", "!">>)
    /\ ReturnedKnowledgeSeeking

\* the query satisfies one of the five lexical checks
SatisfiesLexicalCheck(t) ==
    /\ Len(NormalizedForm(t)) >= 2
    /\ \/ CleanedForm(t) \in SIMPLE_GREETINGS
       \/ GREETING_PATTERN(NormalizedForm(t))
       \/ CleanedForm(t) \in WELL_BEING_QUESTIONS
       \/ CleanedForm(t) \in IDENTITY_QUESTIONS
       \/ StartsWithGreeting(t) /\ Len(Tokens(t)) <= 3

\* C9: a query is General if and only if it satisfies one of the five
\* lexical checks; every other query returns (False, None)
C9_GeneralIffLexicalCheck ==
    (calls = 1 /\ IsText)
        => /\ result.is_general <=> SatisfiesLexicalCheck(query.val)
           /\ ~SatisfiesLexicalCheck(query.val) => ReturnedKnowledgeSeeking

\* C10: analyze never raises, whatever the input, and a value that is not
\* text is KnowledgeSeeking
C10_Total ==
    calls = 1
        => /\ ~result.raised
           /\ ~IsText => ReturnedKnowledgeSeeking

(***************************************************************************)
(* Properties of the rotation and of the chat turn                         *)
(***************************************************************************)
\* the category the classifier decides for each text that is typed
CategoryTable == [t \in TestQueries \cup ChatPrompts |-> analyze_category(Str(t))]

CategoryOf(t) == CategoryTable[t]

\* the positions of the log that hold replies of category c
ServedAt(c) == { i \in 1..Len(responses) : CategoryOf(responses[i].query) = c }

\* the rank of position i among the replies of its category (1 for the first)
RankOf(i) ==
    Cardinality({ j \in ServedAt(CategoryOf(responses[i].query)) : j <= i })

\* the template of category c that the k-th reply of a cycle starting at
\* cursor 0 holds
CycleTemplate(c, k) ==
    response_templates[c][((k - 1) % Len(response_templates[c])) + 1]

\* every reply handed out is the next template of its category's cycle
RepliesFollowCycle ==
    \A i \in 1..Len(responses) :
        CategoryOf(responses[i].query) \in Categories
            => responses[i].response
                 = Str(CycleTemplate(CategoryOf(responses[i].query), RankOf(i)))

\* the prompt of the session's current or last turn
LastPrompt(s) ==
    LET users == { i \in 1..Len(messages[s]) : messages[s][i].role = "user" }
    IN  messages[s][CHOOSE i \in users : \A j \in users : j <= i].content

\* the reply analyze last returned to the session
LastQuickResponse(s) ==
    LET mine == { i \in 1..Len(responses) : responses[i].session = s }
    IN  responses[CHOOSE i \in mine : \A j \in mine : j <= i].response.val

\* C1: on a turn whose query is General no Retrieval Service and no
\* Generation Service call is made, and the reply recorded is exactly the
\* classifier's canned reply with an empty context list
C1_GeneralSkipsRetrieval ==
    \A s \in Sessions :
        (messages[s] # <<>> /\ CategoryOf(LastPrompt(s)) \in Categories)
            => /\ retrieval_calls[s] = 0
               /\ generation_calls[s] = 0
               /\ pc[s] \in {"idle", "rotate"}
               /\ pc[s] = "idle"
                     => messages[s][Len(messages[s])]
                          = [role |-> "assistant",
                             content |-> LastQuickResponse(s),
                             context |-> <<>>]

\* a session answers "how are you" from the templates right after a
\* knowledge-seeking turn that called the Retrieval Service
C1_Witness ==
    \E s \in Sessions :
        /\ pc[s] = "idle"
        /\ Len(messages[s]) = 4
        /\ messages[s][1].content = Q_weather
        /\ messages[s][3].content = Q_how_are_you
        /\ messages[s][4].content \in Templates("well_being")
        /\ messages[s][4].context = <<>>
        /\ retrieval_calls[s] = 0

\* C2: whatever the interleaving of the analyze calls, no advancement is
\* lost: once the calls have returned, each cursor stands at the number of
\* replies handed out modulo the list length and the replies are the
\* consecutive templates of the cycle
C2_AtomicRotation ==
    (\A s \in Sessions : pc[s] # "rotate")
        => /\ \A c \in Categories :
                 response_index[c]
                   = Cardinality(ServedAt(c)) % Len(response_templates[c])
           /\ RepliesFollowCycle

\* C3: from a fresh analyzer the k-th call matching a category returns the
\* template at index (k-1) mod list-length, and five consecutive "hi" calls
\* yield at least two distinct replies
C3_Rotation ==
    /\ RepliesFollowCycle
    /\ (Len(responses) >= 5 /\ \A i \in 1..5 : responses[i].query = Q_hi)
          => Cardinality({ responses[i].response : i \in 1..5 }) >= 2

C3_Witness ==
    /\ Len(responses) >= 5
    /\ \A i \in 1..5 : responses[i].query = Q_hi
    /\ responses[4].response = Str(response_templates["greeting"][1])
    /\ responses[5].response = Str(response_templates["greeting"][2])

(***************************************************************************)
(* The decision and the cursors over repeated calls                        *)
(***************************************************************************)
\* the category whose template list holds the reply analyze returned, "none"
\* for a None reply
ReplyCategory(response) ==
    IF response = None THEN "none"
    ELSE IF \E c \in Categories : response.val \in Templates(c)
         THEN CHOOSE c \in Categories : response.val \in Templates(c)
         ELSE "unknown"

\* the (isGeneral, category) pair of a logged call
DecisionOf(entry) ==
    <<entry.response # None, ReplyCategory(entry.response)>>

\* C11: for a fixed query the (isGeneral, category) pair analyze returns is
\* the same on every repeated call, whatever the rotation cursors stand at
\* when the call is made; only the reply text differs
C11_DecisionIdempotent ==
    \A i, j \in 1..Len(responses) :
        responses[i].query = responses[j].query
            => DecisionOf(responses[i]) = DecisionOf(responses[j])

\* "hi" was answered twice with different texts of the greeting list, with a
\* "how are you" call in between answered from the well-being list
C11_Witness ==
    /\ Len(responses) >= 3
    /\ responses[1].query = Q_hi
    /\ responses[2].query = Q_how_are_you
    /\ responses[3].query = Q_hi
    /\ responses[1].response # responses[3].response
    /\ DecisionOf(responses[1]) = <<TRUE, "greeting">>
    /\ DecisionOf(responses[3]) = <<TRUE, "greeting">>
    /\ DecisionOf(responses[2]) = <<TRUE, "well_being">>

\* every cursor is an index of its template list
CursorsInRange ==
    \A c \in Categories :
        response_index[c] \in 0..(Len(response_templates[c]) - 1)

\* the step of one analyze call moves the cursors as its result tells: a
\* General result advances the cursor of the reply's category by one modulo
\* the list length and leaves the other two, any other result leaves all three
CallMovesOneCursor ==
    LET c == ReplyCategory(result'.response)
    IN  IF result'.is_general
        THEN response_index' =
                 [response_index EXCEPT
                    ![c] = (response_index[c] + 1) % Len(response_templates[c])]
        ELSE response_index' = response_index

\* C20: every cursor starts at 0 and always stays within 0..len-1 of its
\* list; a call matching category C advances C's cursor by exactly one
\* modulo C's list length and leaves the other two cursors unchanged, and a
\* KnowledgeSeeking call leaves all three unchanged
C20_CursorFrame ==
    /\ response_index = InitialResponseIndex
    /\ []CursorsInRange
    /\ [][CallMovesOneCursor]_vars

\* the greeting cursor has wrapped around to 0 after three greeting replies
\* while a well-being reply moved its own cursor to 1 and a KnowledgeSeeking
\* call moved none
C20_Witness ==
    /\ Cardinality(ServedAt("greeting")) = 3
    /\ Cardinality(ServedAt("well_being")) = 1
    /\ Cardinality(ServedAt("none")) = 1
    /\ ServedAt("identity") = {}
    /\ response_index = [greeting |-> 0, well_being |-> 1, identity |-> 0]

(***************************************************************************)
(* Properties of the knowledge-seeking turn                                *)
(***************************************************************************)
\* the session history as the role/content messages a service would be sent
HistoryAsMessages(s) ==
    [ i \in 1..Len(messages[s]) |->
        [role |-> messages[s][i].role, content |-> messages[s][i].content] ]

\* C12: on a knowledge-seeking turn the Generation Service is called with the
\* fixed system prompt and one message per entry of the session history, the
\* earlier user and assistant messages in order and the new user turn last
C12_RequestCarriesHistory ==
    \A s \in Sessions :
        pc[s] = "stream"
            => /\ frame[s].request.system = SYSTEM_PROMPT
               /\ Len(frame[s].request.messages) = Len(messages[s])
               /\ \A i \in 1..(Len(messages[s]) - 1) :
                      frame[s].request.messages[i] = HistoryAsMessages(s)[i]
               /\ frame[s].request.messages[Len(messages[s])].role = "user"

\* the last entry of the session's history
LastMessage(s) == messages[s][Len(messages[s])]

\* C13: a turn whose Retrieval Service call failed is not aborted: its
\* fragment sequence is empty, the Generation Service has been called with
\* the no-context prompt, and when the turn is over its assistant reply is
\* the last entry of the history
C13_RetrievalFailureDegrades ==
    \A s \in Sessions :
        frame[s].retrieval_failed
            => /\ ~frame[s].aborted
               /\ pc[s] \in {"stream", "idle"}
               /\ frame[s].context_chunks = <<>>
               /\ generation_calls[s] = 1
               /\ frame[s].request.messages[1].content
                    = user_message(frame[s].prompt, <<>>)
               /\ pc[s] = "idle"
                     => LastMessage(s) = [role |-> "assistant",
                                          content |-> frame[s].full_response,
                                          context |-> <<>>]

\* the retrieval failed, the reply streamed in two fragments and was recorded
C13_Witness ==
    \E s \in Sessions :
        /\ frame[s].retrieval_failed
        /\ pc[s] = "idle"
        /\ frame[s].prompt = Q_weather
        /\ Len(messages[s]) = 2
        /\ messages[s][2].role = "assistant"
        /\ messages[s][2].content = <<"It ", "is ">>

RECURSIVE Concat(_)
\* the concatenation of a sequence of texts
Concat(texts) ==
    IF texts = <<>> THEN <<>> ELSE Head(texts) \o Concat(Tail(texts))

\* C14: when the Generation Service fails after k fragments (k >= 0) the
\* assistant entry is still appended, and its text is the concatenation of
\* the k fragments received followed by the error marker
C14_PartialReplyKept ==
    \A s \in Sessions :
        frame[s].error # <<>>
            => /\ pc[s] = "idle"
               /\ LastMessage(s)
                    = [role |-> "assistant",
                       content |-> Concat(frame[s].received)
                                     \o <<"Error generating response: ">>
                                     \o frame[s].error,
                       context |-> frame[s].context_chunks]

\* the service failed after two fragments
C14_Witness ==
    \E s \in Sessions :
        /\ frame[s].error = <<"overloaded_error">>
        /\ frame[s].received = << <<"It ">>, <<"is ">> >>
        /\ LastMessage(s).content
             = <<"It ", "is ", "Error generating response: ", "overloaded_error">>

\* the text part stands in text from position k on
OccursAt(text, part, k) ==
    /\ k + Len(part) - 1 <= Len(text)
    /\ SubSeq(text, k, k + Len(part) - 1) = part

\* the prompt says that no relevant context was found
StatesNoContext(content) ==
    \E k \in 1..Len(content) :
        content[k] = "No relevant context was found in the knowledge base for this question.\n\nUser Question: "

\* fragment i under its number
NumberedFragment(chunks, i) == <<"Context ", Digits[i], ":\n">> \o chunks[i]

\* the first position from k on where part stands in text, 0 when it does
\* not stand there
FirstAt(text, part, k) ==
    LET found == { j \in k..Len(text) : OccursAt(text, part, j) }
    IN  IF found = {} THEN 0 ELSE CHOOSE j \in found : \A h \in found : j <= h

RECURSIVE FragmentsFrom(_, _, _, _, _)
\* fragments i..n stand in the prompt from position k on, each under its
\* number and after the one before, and the user's question after the last
FragmentsFrom(content, chunks, prompt, i, k) ==
    LET part == IF i <= Len(chunks) THEN NumberedFragment(chunks, i)
                ELSE <<"\n\nUser Question: ">> \o prompt
        at == FirstAt(content, part, k)
    IN  /\ at # 0
        /\ i <= Len(chunks)
              => FragmentsFrom(content, chunks, prompt, i + 1, at + Len(part))

\* every fragment stands in the prompt under its number, the fragments in
\* retrieval order and the user's question after the last of them
FragmentsThenQuestion(content, chunks, prompt) ==
    FragmentsFrom(content, chunks, prompt, 1, 1)

\* C15: the prompt passed to the Generation Service states that no relevant
\* context was found if and only if the fragment sequence of the turn is
\* empty; when it is not empty the prompt holds every fragment, numbered 1..n
\* in retrieval order, followed by the user's question
C15_PromptMatchesFragments ==
    \A s \in Sessions :
        frame[s].request # <<>>
            => LET content == frame[s].request.messages[1].content
                   chunks == frame[s].context_chunks
               IN  /\ StatesNoContext(content) <=> chunks = <<>>
                   /\ chunks # <<>>
                        => FragmentsThenQuestion(content, chunks, frame[s].prompt)

\* a request built from two fragments, the second one numbered 2
C15_Witness ==
    \E s \in Sessions :
        /\ pc[s] = "stream"
        /\ frame[s].context_chunks = << <<"s","u","n">>, <<"r","a","i","n">> >>
        /\ \E k \in 1..Len(frame[s].request.messages[1].content) :
              OccursAt(frame[s].request.messages[1].content,
                       <<"Context ", "2", ":\n", "r", "a", "i", "n">>, k)

\* C18: stopping a turn while its reply streams leaves the history sound:
\* once the script run is over every user entry is immediately followed by
\* its assistant entry
C18_CancelKeepsHistoryPaired ==
    \A s \in Sessions :
        pc[s] = "idle"
            => \A i \in 1..Len(messages[s]) :
                  messages[s][i].role = "user"
                      => /\ i < Len(messages[s])
                         /\ messages[s][i + 1].role = "assistant"

\* entry 2k of the history answers entry 2k-1
AnswersPrompt(s, k) ==
    LET asked == messages[s][2 * k - 1]
        reply == messages[s][2 * k]
    IN  /\ asked.role = "user"
        /\ reply.role = "assistant"
        /\ IF CategoryOf(asked.content) \in Categories
           THEN /\ reply.content \in Templates(CategoryOf(asked.content))
                /\ reply.context = <<>>
           ELSE \A c \in Categories : reply.content \notin Templates(c)

\* C19: between turns the history holds exactly two entries per turn
\* completed since it was last reset, each user entry immediately followed by
\* the assistant entry that answers it, whether the turn was General or
\* knowledge-seeking and whether or not a service failed; while a turn runs
\* its user entry is the only one unanswered; Clear Chat History leaves the
\* history empty
C19_TwoEntriesPerTurn ==
    \A s \in Sessions :
        /\ pc[s] = "idle" => Len(messages[s]) = 2 * completed[s]
        /\ pc[s] # "idle"
              => /\ Len(messages[s]) = 2 * completed[s] + 1
                 /\ LastMessage(s) = [role |-> "user", content |-> frame[s].prompt]
        /\ \A k \in 1..completed[s] : AnswersPrompt(s, k)

\* a session's history was cleared after its first turn and holds the two
\* entries of its second turn, a knowledge-seeking one whose generation failed
C19_Witness ==
    \E s \in Sessions :
        /\ pc[s] = "idle"
        /\ turns[s] = 2
        /\ completed[s] = 1
        /\ Len(messages[s]) = 2
        /\ messages[s][1] = [role |-> "user", content |-> Q_weather]
        /\ messages[s][2].role = "assistant"
        /\ frame[s].error # <<>>

(***************************************************************************)
(* Properties of the indicator heuristic                                   *)
(***************************************************************************)
\* one of checks 1 to 4 matches the text
MatchesChecks1To4(t) ==
    /\ Len(NormalizedForm(t)) >= 2
    /\ ~UnmatchedBySteps1To4(t)

\* the result of analyze is the primary decision whatever the heuristic says
\* of the query: a text matched by one of checks 1 to 4 is General, and a
\* General text satisfies one of the five lexical checks
PrimaryDecisionStands ==
    (calls = 1 /\ IsText)
        => /\ MatchesChecks1To4(query.val) => result.is_general
           /\ result.is_general => SatisfiesLexicalCheck(query.val)

\* the step of an is_likely_knowledge_query call leaves the cursors and the
\* result of analyze as they were
LikelyCallChangesNothing ==
    likely' # likely => (response_index' = response_index /\ result' = result)

\* C16: the indicator heuristic never overrides the primary decision (a
\* query the heuristic flags, such as "how are you", is still General) and a
\* call of is_likely_knowledge_query does not change the rotation cursors
C16_HeuristicNeverOverrides ==
    /\ []PrimaryDecisionStands
    /\ [][LikelyCallChangesNothing]_vars

\* "how are you" is flagged by the heuristic and answered from the
\* well-being list, the heuristic having been called first or last
C16_Witness ==
    /\ query = Str(Q_how_are_you)
    /\ likely = "True"
    /\ calls = 1
    /\ result.is_general
    /\ result.response.val \in Templates("well_being")

(***************************************************************************)
(* Properties of the singleton                                             *)
(***************************************************************************)
\* C17: whatever the interleaving of the callers, every get_analyzer call
\* returns the same instance, so that the cursors are shared: each General
\* reply, in whichever conversation, is the next template of the one cycle
\* of its category
C17_SingletonShared ==
    /\ \A s, t \in Sessions :
          (caller[s].analyzer # 0 /\ caller[t].analyzer # 0)
              => caller[s].analyzer = caller[t].analyzer
    /\ RepliesFollowCycle

(***************************************************************************)
(* Properties of the elongated greeting with any trailing marks            *)
(***************************************************************************)
\* the text is an elongated greeting stem followed by nothing but the marks
\* ! ? . , ; and whitespace
IsStemThenMarks(t) ==
    \E n \in 1..Len(t) :
        /\ GreetingStem(SubSeq(t, 1, n))
        /\ \A i \in (n + 1)..Len(t) :
              t[i] \in {"!", "?", ".", ",", ";"} \cup Whitespace

\* C21: a query whose normalized form is an elongated greeting stem (hi+,
\* he+y+, hello+, hola+, yo+) followed only by marks of the set !?.,; and
\* whitespace is General with a greeting reply
C21_StemThenAnyMarks ==
    (calls = 1 /\ IsText /\ IsStemThenMarks(NormalizedForm(query.val)))
        => ReturnedGeneral("greeting")

(***************************************************************************)
(* Properties of the REST chat handler                                     *)
(***************************************************************************)
\* the roles of the history alternate, the first entry being a user message
Alternates(history) ==
    \A i \in 1..Len(history) :
        history[i].role = IF i % 2 = 1 THEN "user" ELSE "assistant"

\* C22: a request answered 500 leaves the stored history of its session as
\* it was before the request, so that between requests the history of every
\* session alternates user and assistant messages
C22_FailedRequestLeavesHistory ==
    /\ \A k \in DOMAIN done :
          done[k].status = 500 => history_of(k) = done[k].before
    /\ \A k \in (DOMAIN conversations) \ (DOMAIN handling) :
          Alternates(conversations[k])

(***************************************************************************)
(* Properties of the fragments attached to a turn                          *)
(***************************************************************************)
\* C23: the fragments attached to a knowledge-seeking turn, as returned by
\* search_supermemory, passed to the generation and recorded in the history,
\* are never more than the configured context_limit, and none of them is
\* blank
C23_FragmentsWithinLimit ==
    \A s \in Sessions :
        frame[s].request # <<>>
            => /\ Len(frame[s].context_chunks) <= frame[s].context_limit
               /\ \A i \in 1..Len(frame[s].context_chunks) :
                     strip(frame[s].context_chunks[i]) # <<>>
               /\ pc[s] = "idle"
                     => Len(LastMessage(s).context) <= frame[s].context_limit

============================================================================
